---- MODULE Spec2Model ----
(***************************************************************************)
(* Model of manzi_dashboard.py: a Streamlit script that is re-executed    *)
(* from top to bottom on every widget interaction.  Two generators        *)
(* (generate_sample_data, generate_geo_data) sit behind st.cache_data;    *)
(* the rest of the script filters their tables and renders panels.        *)
(*                                                                         *)
(* Numbers.  Metric values are fixed point, 1/1000 of the source's unit   *)
(* (75 is 75000).  Coordinates are 1/10000 of a degree.  Time is counted   *)
(* in ticks, TicksPerDay ticks to the day.  Dates are day ordinals counted *)
(* from 1 January of EpochYear (that day is ordinal 1).                    *)
(*                                                                         *)
(* Randomness.  numpy's global generator is a deterministic function of    *)
(* its seed; it is modelled by a small linear congruential generator whose *)
(* state is the variable rng, seeded nondeterministically in Init.  Every  *)
(* draw advances rng, in the order in which the source draws.              *)
(***************************************************************************)
EXTENDS Integers, Sequences, FiniteSets, TLC

\* ------------------------------------------------------------------ bounds
MaxSeed == 1
MaxClock == 3
TicksPerDay == 2
MaxNoise == 18
MaxRuns == 2

\* ------------------------------------------------------------ small helpers
Max(a, b) == IF a >= b THEN a ELSE b
Min(a, b) == IF a <= b THEN a ELSE b

\* --------------------------------------------------------------- calendar
IsLeap(y) == (y % 4 = 0) /\ ((y % 100 # 0) \/ (y % 400 = 0))

DaysInMonth(y, m) ==
    IF m = 2 THEN (IF IsLeap(y) THEN 29 ELSE 28)
    ELSE IF m \in {4, 6, 9, 11} THEN 30 ELSE 31

RECURSIVE DaysBeforeMonth(_, _)
DaysBeforeMonth(y, m) ==
    IF m = 1 THEN 0 ELSE DaysBeforeMonth(y, m - 1) + DaysInMonth(y, m - 1)

DaysInYear(y) == IF IsLeap(y) THEN 366 ELSE 365

\* days before January 1st of year y, counted from the first year of the
\* modelled calendar window (EpochYear)
YearWindow == 2021..2026
EpochYear == CHOOSE y \in YearWindow : \A z \in YearWindow : y <= z
RECURSIVE DaysBeforeYear(_)
DaysBeforeYear(y) ==
    IF y <= EpochYear THEN 0 ELSE DaysBeforeYear(y - 1) + DaysInYear(y - 1)

ToOrdinal(y, m, d) == DaysBeforeYear(y) + DaysBeforeMonth(y, m) + d

YearOf(ord) ==
    CHOOSE y \in YearWindow :
        DaysBeforeYear(y) < ord /\ ord <= DaysBeforeYear(y) + DaysInYear(y)

\* date.timetuple().tm_yday
DayOfYear(ord) == ord - DaysBeforeYear(YearOf(ord))

MonthOf(ord) ==
    LET y == YearOf(ord)
        n == DayOfYear(ord)
    IN  CHOOSE m \in 1..12 :
            DaysBeforeMonth(y, m) < n /\ n <= DaysBeforeMonth(y, m) + DaysInMonth(y, m)

DayOf(ord) == DayOfYear(ord) - DaysBeforeMonth(YearOf(ord), MonthOf(ord))

\* pd.Timestamp(date), datetime(y, m, d): midnight of the day, in ticks
PdTimestamp(ord) == ord * TicksPerDay
\* Timestamp.date(): the calendar day a timestamp falls in
TsDay(ts) == ts \div TicksPerDay
TsYear(ts) == YearOf(TsDay(ts))
TsMonth(ts) == MonthOf(TsDay(ts))
TsDayOfYear(ts) == DayOfYear(TsDay(ts))

\* (end - start).days
DeltaDays(start, end) == (end - start) \div TicksPerDay

\* (a date range that leaves its end day out)
DateRangeOpenEnd(start, end) ==
    [i \in 1..Max(0, DeltaDays(start, end)) |-> start + (i - 1) * TicksPerDay]

\* pd.date_range(start, end, freq='D'): start, start + 1 day, ... up to end
DateRange(start, end) ==
    [i \in 1..Max(0, DeltaDays(start, end) + 1) |-> start + (i - 1) * TicksPerDay]

\* line 76
StartDate == PdTimestamp(ToOrdinal(2022, 1, 1))
EndDate == PdTimestamp(ToOrdinal(2024, 12, 31))
dates == DateRange(StartDate, EndDate)

\* ------------------------------------------------------- random generator
RngNext(s) == (75 * s + 74) % 65537

\* np.random.normal(0, sigma): sigma times a standard draw.  The standard
\* draw is discretised to half sigmas in -MaxNoise..MaxNoise.
Normal(s, sigma) == (sigma * ((s % (2 * MaxNoise + 1)) - MaxNoise)) \div 2

\* (an integer draw that includes its upper limit)
RandIntInclusive(s, lo, hi) == lo + (s % (hi - lo + 1))

\* np.random.randint(lo, hi): an integer in lo..hi-1
RandInt(s, lo, hi) == lo + (s % (hi - lo))

\* np.random.uniform(lo, hi): a value in [lo, hi)
Uniform(s, lo, hi) == lo + (s % (hi - lo))

\* ----------------------------------------------------- KPI generator maths
\* 1000 * sin(2*pi*doy/365), by Bhaskara's rational approximation over half
\* periods (error below 0.002): h counts half days, 365 of them to the half
\* period.
SinMilli(doy) ==
    LET h == (2 * doy) % 730
        g == IF h <= 365 THEN h ELSE h - 365
        p == g * (365 - g)
        v == (16000 * p) \div (666125 - 4 * p)
    IN  IF h <= 365 THEN v ELSE -v

\* the seasonal base before the shock adjustment (line 86)
ReservoirSeasonal(d) == 75000 + 20 * SinMilli(TsDayOfYear(d))

\* lines 86-88
ReservoirBase(d) ==
    IF TsYear(d) = 2024 /\ TsMonth(d) \in {4, 5, 6}
    THEN ReservoirSeasonal(d) - 15000
    ELSE ReservoirSeasonal(d)

\* line 92
LeakageBase(d) == 25000 - (TsYear(d) - 2022) * 2000

\* (a pump base whose shock window misses June)
PumpBaseShortWindow(d) ==
    95000 - (IF TsYear(d) = 2024 /\ TsMonth(d) \in {4, 5} THEN 5000 ELSE 0)

\* line 96
PumpBase(d) == 95000 - (IF TsYear(d) = 2024 /\ TsMonth(d) \in {4, 5, 6} THEN 5000 ELSE 0)

\* lines 103-105
EnergyTrend(d) == 2500 + (TsYear(d) - 2022) * 300
EnergyBase(d) ==
    IF TsYear(d) = 2024 /\ TsMonth(d) \in {4, 5, 6}
    THEN (EnergyTrend(d) * 14) \div 10
    ELSE EnergyTrend(d)

\* line 112
CsatBase(d) == 78000 - (IF TsYear(d) = 2024 /\ TsMonth(d) \in {4, 5, 6} THEN 3000 ELSE 0)

\* max(lo, x)
ClampLow(lo, x) == Max(lo, x)

\* (a clamp that forgets its upper bound)
ClampNoTop(lo, hi, x) == Max(lo, x)

\* min(hi, max(lo, x))
Clamp(lo, hi, x) == Min(hi, Max(lo, x))

\* the seven draws of one loop iteration, in source order, from state s
DrawStates(s) ==
    LET s1 == RngNext(s)
        s2 == RngNext(s1)
        s3 == RngNext(s2)
        s4 == RngNext(s3)
        s5 == RngNext(s4)
        s6 == RngNext(s5)
        s7 == RngNext(s6)
    IN  <<s1, s2, s3, s4, s5, s6, s7>>

KpiNoise(s) ==
    LET ds == DrawStates(s)
    IN  [reservoir |-> Normal(ds[1], 5000),
         leakage |-> Normal(ds[2], 2000),
         pump |-> Normal(ds[3], 3000),
         billing |-> Normal(ds[4], 5000),
         energy |-> Normal(ds[5], 200),
         compliance |-> Normal(ds[6], 2000),
         csat |-> Normal(ds[7], 4000)]

\* the local variables of one loop iteration (lines 82-113), drawn from
\* generator state s
KpiLocals(d, s) ==
    [date |-> d,
     reservoir_base |-> ReservoirBase(d),
     leakage_base |-> LeakageBase(d),
     pump_base |-> PumpBase(d),
     energy_base |-> EnergyBase(d),
     csat_base |-> CsatBase(d),
     noise |-> KpiNoise(s)]

\* the record appended at lines 115-124
KpiRecord(l) ==
    [date |-> l.date,
     reservoir_level |-> ClampLow(20000, l.reservoir_base + l.noise.reservoir),
     leakage_rate |-> ClampLow(10000, l.leakage_base + l.noise.leakage),
     pump_uptime |-> Clamp(80000, 100000, l.pump_base + l.noise.pump),
     billing_efficiency |-> Clamp(70000, 100000, 85000 + l.noise.billing),
     energy_cost |-> ClampLow(1000, l.energy_base + l.noise.energy),
     compliance |-> Clamp(85000, 100000, 96000 + l.noise.compliance),
     csat |-> Clamp(60000, 100000, l.csat_base + l.noise.csat)]

\* ---------------------------------------------------------- geo generator
\* lines 132-143, coordinates in 1/10000 degree
locations ==
    << [city |-> "Johannesburg", lat |-> -262041, lon |-> 280473],
       [city |-> "Cape Town", lat |-> -339249, lon |-> 184241],
       [city |-> "Durban", lat |-> -298587, lon |-> 310218],
       [city |-> "Pretoria", lat |-> -257479, lon |-> 282293],
       [city |-> "Port Elizabeth", lat |-> -339608, lon |-> 256022],
       [city |-> "Bloemfontein", lat |-> -290852, lon |-> 261596],
       [city |-> "East London", lat |-> -330153, lon |-> 279116],
       [city |-> "Polokwane", lat |-> -239045, lon |-> 294689],
       [city |-> "Nelspruit", lat |-> -254653, lon |-> 309700],
       [city |-> "Kimberley", lat |-> -287282, lon |-> 247499] >>

IncidentTypes == <<"pipe_burst", "pump_outage", "refill_station">>
Severities == <<"High", "Medium", "Low">>

\* np.random.choice(values, p=...): one uniform draw u (here in percent,
\* 0..99) looked up in the cumulative distribution cdf
Choice(s, values, cdf) ==
    LET u == s % 100
    IN  values[CHOOSE i \in 1..Len(values) :
                   /\ u < cdf[i]
                   /\ \A j \in 1..(i - 1) : u >= cdf[j]]

\* timedelta(days=n)
Days(n) == n * TicksPerDay

\* the five draws of one iteration of the inner loop (lines 149-164), in
\* source order, from generator state s
GeoDraws(s) ==
    LET s1 == RngNext(s)
        s2 == RngNext(s1)
        s3 == RngNext(s2)
        s4 == RngNext(s3)
        s5 == RngNext(s4)
    IN  [incident_type |-> Choice(s1, IncidentTypes, <<40, 70, 100>>),
         lat_offset |-> Uniform(s2, -1000, 1000),
         lon_offset |-> Uniform(s3, -1000, 1000),
         severity |-> Choice(s4, Severities, <<20, 70, 100>>),
         days |-> RandInt(s5, 0, 30),
         rng |-> s5]

\* the record appended at lines 158-165 for anchor loc, from draws dr, the
\* clock reading clock at line 164
GeoRecord(loc, dr, clock) ==
    [lat |-> loc.lat + dr.lat_offset,
     lon |-> loc.lon + dr.lon_offset,
     city |-> loc.city,
     type |-> dr.incident_type,
     severity |-> dr.severity,
     timestamp |-> clock - Days(dr.days)]

\* the generator state after n further draws (the halving, and the test of
\* s that has it evaluated on entry, keep the evaluation shallow)
RECURSIVE RngSkip(_, _)
RngSkip(s, n) ==
    IF n = 0 \/ s < 0 THEN s
    ELSE IF n = 1 THEN RngNext(s)
    ELSE RngSkip(RngSkip(s, n \div 2), n - (n \div 2))

\* ------------------------------------------------------------ filter stage
\* the values the widgets can hand to the script
\* the dates picked in the date widget: the two dates of its default value
\* (line 188), the second being also its max_value and the table's last day
DateChoices == {ToOrdinal(2024, 1, 1), ToOrdinal(2024, 12, 31)}
\* st.date_input with a two-element default yields a tuple of 0, 1 or 2
\* dates (datetime.date values)
DateRangeValues ==
    {<<>>} \cup {<<a>> : a \in DateChoices} \cup (DateChoices \X DateChoices)

\* the slider of line 364: its minimum, its default and its maximum
SliderChoices == {1, 7, 30}
TypeOptions == {"All", "pipe_burst", "pump_outage", "refill_station"}
SeverityOptions == {"All", "High", "Medium", "Low"}

\* df[mask]: the rows whose mask entry is true, in the frame's order
\* (rows lo..hi of it; the halving keeps the evaluation shallow)
RECURSIVE TakeRows(_, _, _, _)
TakeRows(df, mask, lo, hi) ==
    IF lo > hi THEN <<>>
    ELSE IF lo = hi THEN (IF mask[lo] THEN <<df[lo]>> ELSE <<>>)
    ELSE LET mid == (lo + hi) \div 2
         IN  TakeRows(df, mask, lo, mid) \o TakeRows(df, mask, mid + 1, hi)

BoolIndex(df, mask) == TakeRows(df, mask, 1, Len(df))

\* (a date mask that leaves the upper bound out)
DateMaskOpenEnd(df, lo, hi) ==
    [i \in 1..Len(df) |-> df[i].date >= PdTimestamp(lo) /\ df[i].date < PdTimestamp(hi)]

\* line 195: (date >= Timestamp(lo)) & (date <= Timestamp(hi))
DateMask(df, lo, hi) ==
    [i \in 1..Len(df) |-> df[i].date >= PdTimestamp(lo) /\ df[i].date <= PdTimestamp(hi)]

\* lines 194-198
DateFilter(df, dr) ==
    IF Len(dr) = 2 THEN BoolIndex(df, DateMask(df, dr[1], dr[2])) ELSE df

\* df.tail(1).iloc[0]
LastRow(df) == df[Len(df)]

\* line 201 without the test of the view: always the last row of the table
CurrentMetricsOfTable(filtered, df) == LastRow(df)

\* line 201
CurrentMetrics(filtered, df) ==
    IF filtered # <<>> THEN LastRow(filtered) ELSE LastRow(df)

\* lines 369-370
ByType(df, sel) ==
    IF sel # "All" THEN BoolIndex(df, [i \in 1..Len(df) |-> df[i].type = sel]) ELSE df

\* (a severity filter that tests the type column)
BySeverityOnType(df, sel) ==
    IF sel # "All" THEN BoolIndex(df, [i \in 1..Len(df) |-> df[i].type = sel]) ELSE df

\* lines 372-373
BySeverity(df, sel) ==
    IF sel # "All" THEN BoolIndex(df, [i \in 1..Len(df) |-> df[i].severity = sel]) ELSE df

\* (a recency filter that drops the incidents dated exactly at the cutoff)
ByRecencyStrict(df, cutoff) ==
    BoolIndex(df, [i \in 1..Len(df) |-> df[i].timestamp > cutoff])

\* lines 376-377
ByRecency(df, cutoff) ==
    BoolIndex(df, [i \in 1..Len(df) |-> df[i].timestamp >= cutoff])

\* lines 367-377
GeoFilter(df, tsel, ssel, cutoff) == ByRecency(BySeverity(ByType(df, tsel), ssel), cutoff)

\* lines 380-393: the colour and size columns, added to the frame given
color_map == [pipe_burst |-> "#dc2626", pump_outage |-> "#d97706", refill_station |-> "#059669"]
size_map == [High |-> 15, Medium |-> 10, Low |-> 7]
WithColumns(df) ==
    [i \in 1..Len(df) |->
        [lat |-> df[i].lat, lon |-> df[i].lon, city |-> df[i].city,
         type |-> df[i].type, severity |-> df[i].severity,
         timestamp |-> df[i].timestamp,
         color |-> color_map[df[i].type], size |-> size_map[df[i].severity]]]

\* line 483: df_filtered['date'].max() of an empty frame is NaT, and
\* pd.date_range(start=NaT, ...) raises ValueError; line 490: .iloc[-1] of an
\* empty column raises IndexError
ForecastRaises(filtered) == filtered = <<>>

\* ------------------------------------------------------------------- state
VARIABLES
    pc,              \* position of the script run
    rng,             \* state of numpy's global generator
    now,             \* the wall clock, in ticks
    runs,            \* script runs started so far
    cached,          \* functions st.cache_data holds a value for
    kpi_cache,       \* the cached return value of generate_sample_data
    geo_cache,       \* the cached return value of generate_geo_data
    kpi_runs,        \* executions of the body of generate_sample_data
    geo_runs,        \* executions of the body of generate_geo_data
    kpi_data,        \* generate_sample_data: the list being built
    kpi_locals,      \* generate_sample_data: locals of the last iteration
    geo_data,        \* generate_geo_data: the list being built
    geo_loop,        \* generate_geo_data: anchor index and iterations left
    geo_origin,      \* history: per incident, the clock reading g and the day
                     \* offset k its timestamp was computed from (line 164)
    df_kpis, df_geo, \* script: the loaded tables (lines 170-171)
    date_range,      \* script: value of the date widget
    df_filtered,     \* script: the filtered KPI view
    current_metrics, \* script: the row shown on the KPI cards
    geo_widgets,     \* script: incident_filter, severity_filter, days_filter
    cutoff_date,     \* script: line 376
    df_geo_filtered, \* script: the filtered incident view
    raised           \* the run ended in an uncaught exception

cache_vars == <<cached, kpi_cache, geo_cache>>
kpi_gen_vars == <<kpi_data, kpi_locals>>
geo_gen_vars == <<geo_data, geo_loop, geo_origin>>
kpi_view_vars == <<date_range, df_filtered, current_metrics>>
geo_view_vars == <<geo_widgets, cutoff_date, df_geo_filtered>>
vars == <<pc, rng, now, runs, cache_vars, kpi_runs, geo_runs, kpi_gen_vars,
          geo_gen_vars, df_kpis, df_geo, kpi_view_vars, geo_view_vars, raised>>

NoLocals == [date |-> -1]
NoRow == [date |-> -1]
NoLoop == [anchor |-> 0, left |-> 0]
NoWidgets == [incident_filter |-> "All", severity_filter |-> "All", days_filter |-> 0]

Init ==
    /\ pc = "load_kpis"
    /\ rng \in 0..MaxSeed
    /\ now = 0
    /\ runs = 1
    /\ cached = {}
    /\ kpi_cache = <<>>
    /\ geo_cache = <<>>
    /\ kpi_runs = 0
    /\ geo_runs = 0
    /\ kpi_data = <<>>
    /\ kpi_locals = NoLocals
    /\ geo_data = <<>>
    /\ geo_loop = NoLoop
    /\ geo_origin = <<>>
    /\ df_kpis = <<>>
    /\ df_geo = <<>>
    /\ date_range = <<>>
    /\ df_filtered = <<>>
    /\ current_metrics = NoRow
    /\ geo_widgets = NoWidgets
    /\ cutoff_date = 0
    /\ df_geo_filtered = <<>>
    /\ raised = FALSE

\* (a cache that never finds a stored value)
CacheNeverHit(c, f) == FALSE

\* st.cache_data: is there a stored value for the function?
CacheHit(c, f) == f \in c

\* line 170 with a stored value: the call returns it, the body does not run
LoadKpisCached ==
    /\ pc = "load_kpis"
    /\ CacheHit(cached, "generate_sample_data")
    /\ df_kpis' = kpi_cache
    /\ pc' = "load_geo"
    /\ UNCHANGED <<rng, now, runs, cache_vars, kpi_runs, geo_runs, kpi_gen_vars,
                   geo_gen_vars, df_geo, kpi_view_vars, geo_view_vars, raised>>

\* line 170 without a stored value: the body starts (lines 76-79)
GenKpiEnter ==
    /\ pc = "load_kpis"
    /\ ~CacheHit(cached, "generate_sample_data")
    /\ kpi_runs' = kpi_runs + 1
    /\ kpi_data' = <<>>
    /\ kpi_locals' = NoLocals
    /\ pc' = "gen_kpi"
    /\ UNCHANGED <<rng, now, runs, cache_vars, geo_runs, geo_gen_vars, df_kpis,
                   df_geo, kpi_view_vars, geo_view_vars, raised>>

\* one iteration of the loop of lines 80-124
GenKpiStep ==
    /\ pc = "gen_kpi"
    /\ Len(kpi_data) < Len(dates)
    /\ LET l == KpiLocals(dates[Len(kpi_data) + 1], rng)
       IN  /\ kpi_locals' = l
           /\ kpi_data' = Append(kpi_data, KpiRecord(l))
    /\ rng' = DrawStates(rng)[7]
    /\ UNCHANGED <<pc, now, runs, cache_vars, kpi_runs, geo_runs, geo_gen_vars,
                   df_kpis, df_geo, kpi_view_vars, geo_view_vars, raised>>

\* line 126: the table is returned, stored by st.cache_data and bound at line 170
GenKpiReturn ==
    /\ pc = "gen_kpi"
    /\ Len(kpi_data) = Len(dates)
    /\ kpi_cache' = kpi_data
    /\ cached' = cached \cup {"generate_sample_data"}
    /\ df_kpis' = kpi_data
    /\ kpi_data' = <<>>
    /\ kpi_locals' = NoLocals
    /\ pc' = "load_geo"
    /\ UNCHANGED <<rng, now, runs, geo_cache, kpi_runs, geo_runs, geo_gen_vars,
                   df_geo, kpi_view_vars, geo_view_vars, raised>>

\* line 171 with a stored value
LoadGeoCached ==
    /\ pc = "load_geo"
    /\ CacheHit(cached, "generate_geo_data")
    /\ df_geo' = geo_cache
    /\ pc' = "date_filter"
    /\ UNCHANGED <<rng, now, runs, cache_vars, kpi_runs, geo_runs, kpi_gen_vars,
                   geo_gen_vars, df_kpis, kpi_view_vars, geo_view_vars, raised>>

\* line 171 without a stored value: the body starts (lines 132-145)
GenGeoEnter ==
    /\ pc = "load_geo"
    /\ ~CacheHit(cached, "generate_geo_data")
    /\ geo_runs' = geo_runs + 1
    /\ geo_data' = <<>>
    /\ geo_loop' = [anchor |-> 0, left |-> 0]
    /\ geo_origin' = <<>>
    /\ pc' = "gen_geo"
    /\ UNCHANGED <<rng, now, runs, cache_vars, kpi_runs, kpi_gen_vars, df_kpis,
                   df_geo, kpi_view_vars, geo_view_vars, raised>>

\* lines 146-148: the next anchor, and the number of its incidents
GenGeoAnchor ==
    /\ pc = "gen_geo"
    /\ geo_loop.left = 0
    /\ geo_loop.anchor < Len(locations)
    /\ rng' = RngNext(rng)
    /\ geo_loop' = [anchor |-> geo_loop.anchor + 1, left |-> RandInt(rng', 5, 15)]
    /\ UNCHANGED <<pc, now, runs, cache_vars, kpi_runs, geo_runs, kpi_gen_vars,
                   geo_data, geo_origin, df_kpis, df_geo, kpi_view_vars,
                   geo_view_vars, raised>>

\* lines 149-165: one incident of the current anchor
GenGeoStep ==
    /\ pc = "gen_geo"
    /\ geo_loop.left > 0
    /\ LET dr == GeoDraws(rng)
       IN  /\ geo_data' = Append(geo_data, GeoRecord(locations[geo_loop.anchor], dr, now))
           /\ geo_origin' = Append(geo_origin, [g |-> now, k |-> dr.days])
           /\ rng' = dr.rng
    /\ geo_loop' = [geo_loop EXCEPT !.left = @ - 1]
    /\ UNCHANGED <<pc, now, runs, cache_vars, kpi_runs, geo_runs, kpi_gen_vars,
                   df_kpis, df_geo, kpi_view_vars, geo_view_vars, raised>>

\* line 167
GenGeoReturn ==
    /\ pc = "gen_geo"
    /\ geo_loop.left = 0
    /\ geo_loop.anchor = Len(locations)
    /\ geo_cache' = geo_data
    /\ cached' = cached \cup {"generate_geo_data"}
    /\ df_geo' = geo_data
    /\ geo_data' = <<>>
    /\ geo_loop' = NoLoop
    /\ pc' = "date_filter"
    /\ UNCHANGED <<rng, now, runs, kpi_cache, kpi_runs, geo_runs, kpi_gen_vars,
                   geo_origin, df_kpis, kpi_view_vars, geo_view_vars, raised>>

\* lines 186-201: the date widget, the filtered view, the KPI-card row
FilterKpis ==
    /\ pc = "date_filter"
    /\ \E dr \in DateRangeValues :
        /\ date_range' = dr
        /\ df_filtered' = DateFilter(df_kpis, dr)
        /\ current_metrics' = CurrentMetrics(DateFilter(df_kpis, dr), df_kpis)
    /\ pc' = "tab1"
    /\ UNCHANGED <<rng, now, runs, cache_vars, kpi_runs, geo_runs, kpi_gen_vars,
                   geo_gen_vars, df_kpis, df_geo, geo_view_vars, raised>>

\* lines 206-348: KPI cards and trend charts; they read current_metrics and
\* the columns of df_filtered, an empty frame gives empty charts
Tab1 ==
    /\ pc = "tab1"
    /\ pc' = "tab2"
    /\ UNCHANGED <<rng, now, runs, cache_vars, kpi_runs, geo_runs, kpi_gen_vars,
                   geo_gen_vars, df_kpis, df_geo, kpi_view_vars, geo_view_vars, raised>>

\* lines 351-442: the three widgets, the filters, the added columns, the map
\* (or the "no incidents" notice), the summary and the alerts
Tab2 ==
    /\ pc = "tab2"
    /\ \E tsel \in TypeOptions, ssel \in SeverityOptions, n \in SliderChoices :
        LET cutoff == now - Days(n)
        IN  /\ geo_widgets' = [incident_filter |-> tsel, severity_filter |-> ssel,
                               days_filter |-> n]
            /\ cutoff_date' = cutoff
            /\ df_geo_filtered' = WithColumns(GeoFilter(df_geo, tsel, ssel, cutoff))
    /\ pc' = "tab3"
    /\ UNCHANGED <<rng, now, runs, cache_vars, kpi_runs, geo_runs, kpi_gen_vars,
                   geo_gen_vars, df_kpis, df_geo, kpi_view_vars, raised>>

\* the script's namespace is discarded when the run ends
EndOfRun ==
    /\ df_kpis' = <<>>
    /\ df_geo' = <<>>
    /\ date_range' = <<>>
    /\ df_filtered' = <<>>
    /\ current_metrics' = NoRow
    /\ geo_widgets' = NoWidgets
    /\ cutoff_date' = 0
    /\ df_geo_filtered' = <<>>
    /\ pc' = "idle"

\* lines 445-574 on a non-empty KPI view: the forecasts draw 30 + 30 normal
\* values (lines 495 and 535) for the charts; the script then ends
Tab3 ==
    /\ pc = "tab3"
    /\ ~ForecastRaises(df_filtered)
    /\ rng' = RngSkip(rng, 60)
    /\ raised' = FALSE
    /\ EndOfRun
    /\ UNCHANGED <<now, runs, cache_vars, kpi_runs, geo_runs, kpi_gen_vars, geo_gen_vars>>

\* line 483 (and 490) on an empty KPI view: the run ends in an exception
Tab3Raise ==
    /\ pc = "tab3"
    /\ ForecastRaises(df_filtered)
    /\ raised' = TRUE
    /\ EndOfRun
    /\ UNCHANGED <<rng, now, runs, cache_vars, kpi_runs, geo_runs, kpi_gen_vars,
                   geo_gen_vars>>

\* a widget interaction: Streamlit runs the script again from the top, in a
\* fresh namespace; only the st.cache_data store survives
Rerun ==
    /\ pc = "idle"
    /\ runs < MaxRuns
    /\ runs' = runs + 1
    /\ raised' = FALSE
    /\ pc' = "load_kpis"
    /\ UNCHANGED <<rng, now, cache_vars, kpi_runs, geo_runs, kpi_gen_vars,
                   geo_gen_vars, df_kpis, df_geo, kpi_view_vars, geo_view_vars>>

\* time passes.  The clock is read at lines 164 and 376 only; a tick
\* anywhere between the generator call and line 376 of the same or of a later
\* run is a tick here, before line 376.  A call of generate_geo_data is taken
\* to complete within one tick.
Tick ==
    /\ pc = "tab2"
    /\ now < MaxClock
    /\ now' = now + 1
    /\ UNCHANGED <<pc, rng, runs, cache_vars, kpi_runs, geo_runs, kpi_gen_vars,
                   geo_gen_vars, df_kpis, df_geo, kpi_view_vars, geo_view_vars, raised>>

Next ==
    \/ LoadKpisCached
    \/ GenKpiEnter
    \/ GenKpiStep
    \/ GenKpiReturn
    \/ LoadGeoCached
    \/ GenGeoEnter
    \/ GenGeoAnchor
    \/ GenGeoStep
    \/ GenGeoReturn
    \/ FilterKpis
    \/ Tab1
    \/ Tab2
    \/ Tab3
    \/ Tab3Raise
    \/ Rerun
    \/ Tick

Spec == Init /\ [][Next]_vars

\* ================================================================== claims
\* the shock window as the claims state it: April to June of 2024
InShockWindow(d) == TsYear(d) = 2024 /\ TsMonth(d) \in {4, 5, 6}

\* the table generate_sample_data returned is bound to df_kpis at line 170
KpisLoaded == pc = "load_geo"

\* C1: every KPI record that generate_sample_data produces has
\* reservoir_level within [20, 100], on every date and for every noise draw.
\* (The source clamps reservoir_level from below only: line 89.)
C1_ReservoirWithinBounds ==
    \A i \in 1..Len(kpi_data) :
        /\ kpi_data[i].reservoir_level >= 20000
        /\ kpi_data[i].reservoir_level <= 100000

\* C2: every KPI record produced has pump_uptime in [80, 100],
\* billing_efficiency in [70, 100], compliance in [85, 100], csat in
\* [60, 100], leakage_rate >= 10 and energy_cost >= 1, shock window included.
C2_OtherMetricsWithinBounds ==
    KpisLoaded =>
        \A i \in 1..Len(df_kpis) :
            LET r == df_kpis[i]
            IN  /\ r.pump_uptime >= 80000 /\ r.pump_uptime <= 100000
                /\ r.billing_efficiency >= 70000 /\ r.billing_efficiency <= 100000
                /\ r.compliance >= 85000 /\ r.compliance <= 100000
                /\ r.csat >= 60000 /\ r.csat <= 100000
                /\ r.leakage_rate >= 10000
                /\ r.energy_cost >= 1000

\* C2 witness: a returned table in which the clamps act, inside the shock
\* window too: an upper and a lower clamp of pump_uptime on shock dates, and
\* the lower clamps of leakage_rate and energy_cost
C2_Witness ==
    /\ KpisLoaded
    /\ \E i \in 1..Len(df_kpis) :
        InShockWindow(df_kpis[i].date) /\ df_kpis[i].pump_uptime = 100000
    /\ \E i \in 1..Len(df_kpis) :
        InShockWindow(df_kpis[i].date) /\ df_kpis[i].pump_uptime = 80000
    /\ \E i \in 1..Len(df_kpis) : df_kpis[i].leakage_rate = 10000
    /\ \E i \in 1..Len(df_kpis) : df_kpis[i].energy_cost = 1000

\* C3: generate_sample_data returns exactly (end - start).days + 1 = 1096
\* records, one per calendar day, dates strictly increasing without gap or
\* duplicate, the first dated 2022-01-01 and the last 2024-12-31.
C3_OneRecordPerDay ==
    KpisLoaded =>
        /\ Len(df_kpis) = DeltaDays(StartDate, EndDate) + 1
        /\ Len(df_kpis) = 1096
        /\ \A i \in 1..(Len(df_kpis) - 1) :
            df_kpis[i + 1].date = df_kpis[i].date + Days(1)
        /\ LET first == df_kpis[1].date
               last == df_kpis[Len(df_kpis)].date
           IN  /\ TsYear(first) = 2022 /\ TsMonth(first) = 1 /\ DayOf(TsDay(first)) = 1
               /\ first = PdTimestamp(TsDay(first))
               /\ TsYear(last) = 2024 /\ TsMonth(last) = 12 /\ DayOf(TsDay(last)) = 31

\* C3 witness: a returned table that holds the leap day of 2024
C3_Witness ==
    /\ KpisLoaded
    /\ Len(df_kpis) = 1096
    /\ \E i \in 1..Len(df_kpis) :
        LET d == df_kpis[i].date
        IN  TsYear(d) = 2024 /\ TsMonth(d) = 2 /\ DayOf(TsDay(d)) = 29

\* C4: the shock adjustment hits reservoir (-15), pump uptime (-5), energy
\* cost (x1.4) and csat (-3) on exactly the same dates, April to June 2024:
\* on every date all four bases are perturbed or none is; leakage_rate,
\* billing_efficiency and compliance are never perturbed.
C4_ShockOnSameDates ==
    (pc = "gen_kpi" /\ kpi_data # <<>>) =>
        LET l == kpi_locals
            d == l.date
            r == kpi_data[Len(kpi_data)]
        IN  /\ InShockWindow(d) =>
                /\ l.reservoir_base = ReservoirSeasonal(d) - 15000
                /\ l.pump_base = 95000 - 5000
                /\ l.energy_base = (EnergyTrend(d) * 14) \div 10
                /\ l.csat_base = 78000 - 3000
            /\ ~InShockWindow(d) =>
                /\ l.reservoir_base = ReservoirSeasonal(d)
                /\ l.pump_base = 95000
                /\ l.energy_base = EnergyTrend(d)
                /\ l.csat_base = 78000
            /\ l.leakage_base = 25000 - 2000 * (TsYear(d) - 2022)
            /\ r.leakage_rate = Max(10000, l.leakage_base + l.noise.leakage)
            /\ r.billing_efficiency = Min(100000, Max(70000, 85000 + l.noise.billing))
            /\ r.compliance = Min(100000, Max(85000, 96000 + l.noise.compliance))

\* C4 witness: the loop has just handled the last day of the shock window
C4_Witness ==
    /\ pc = "gen_kpi"
    /\ kpi_data # <<>>
    /\ kpi_locals.date = PdTimestamp(ToOrdinal(2024, 6, 30))
    /\ kpi_locals.pump_base = 90000
    /\ kpi_locals.csat_base = 75000

\* the table generate_geo_data returned is bound to df_geo at line 171
GeoLoaded == pc = "date_filter"

Abs(x) == IF x >= 0 THEN x ELSE -x
AnchorsOf(r) == {a \in 1..Len(locations) : locations[a].city = r.city}
RowsOfCity(df, city) == {i \in 1..Len(df) : df[i].city = city}

\* C5: every incident generate_geo_data produces has the city of exactly one
\* of the 10 anchors, lat and lon each within 0.1 degree of that anchor, a
\* type among the three incident types and a severity among the three
\* severities; every anchor has between 5 and 14 incidents.
C5_IncidentsWellFormed ==
    GeoLoaded =>
        /\ Len(locations) = 10
        /\ \A i \in 1..Len(df_geo) :
            LET r == df_geo[i]
            IN  /\ Cardinality(AnchorsOf(r)) = 1
                /\ \A a \in AnchorsOf(r) :
                    /\ Abs(r.lat - locations[a].lat) <= 1000
                    /\ Abs(r.lon - locations[a].lon) <= 1000
                /\ r.type \in {"pipe_burst", "pump_outage", "refill_station"}
                /\ r.severity \in {"High", "Medium", "Low"}
        /\ \A a \in 1..Len(locations) :
            /\ Cardinality(RowsOfCity(df_geo, locations[a].city)) >= 5
            /\ Cardinality(RowsOfCity(df_geo, locations[a].city)) <= 14

\* C5 witness: a returned table with an anchor that drew the smallest count
\* (5), an anchor that drew 12 or more, every type and every severity
C5_Witness ==
    /\ GeoLoaded
    /\ \E a \in 1..Len(locations) :
        Cardinality(RowsOfCity(df_geo, locations[a].city)) = 5
    /\ \E a \in 1..Len(locations) :
        Cardinality(RowsOfCity(df_geo, locations[a].city)) >= 12
    /\ \A t \in {"pipe_burst", "pump_outage", "refill_station"} :
        \E i \in 1..Len(df_geo) : df_geo[i].type = t
    /\ \A v \in {"High", "Medium", "Low"} :
        \E i \in 1..Len(df_geo) : df_geo[i].severity = v

\* the six columns of the source table, of a row of the filtered view
SourceColumns(r) ==
    [lat |-> r.lat, lon |-> r.lon, city |-> r.city, type |-> r.type,
     severity |-> r.severity, timestamp |-> r.timestamp]
Projected(df) == [i \in 1..Len(df) |-> SourceColumns(df[i])]

\* the three predicates of the geo filter stage, 'All' passing every row
TypeOk(r, sel) == sel = "All" \/ r.type = sel
SeverityOk(r, sel) == sel = "All" \/ r.severity = sel
RecentOk(r, cutoff) == r.timestamp >= cutoff

\* the tab 2 filters have run (lines 367-393)
GeoFiltered == pc = "tab3"

\* C6: for every incident table and every selection of type, severity
\* ('All' passing everything) and day count, the geo filter stage returns
\* exactly the records satisfying all active predicates, in the source
\* table's order, whatever the order the three filters are applied in.
C6_GeoFiltersConjoinAndCommute ==
    GeoFiltered =>
        LET t == geo_widgets.incident_filter
            v == geo_widgets.severity_filter
            c == cutoff_date
            all == BoolIndex(df_geo,
                       [i \in 1..Len(df_geo) |->
                           /\ TypeOk(df_geo[i], t)
                           /\ SeverityOk(df_geo[i], v)
                           /\ RecentOk(df_geo[i], c)])
        IN  /\ c = now - Days(geo_widgets.days_filter)
            /\ Projected(df_geo_filtered) = all
            /\ ByRecency(BySeverity(ByType(df_geo, t), v), c) = all
            /\ ByRecency(ByType(BySeverity(df_geo, v), t), c) = all
            /\ BySeverity(ByRecency(ByType(df_geo, t), c), v) = all
            /\ BySeverity(ByType(ByRecency(df_geo, c), t), v) = all
            /\ ByType(ByRecency(BySeverity(df_geo, v), c), t) = all
            /\ ByType(BySeverity(ByRecency(df_geo, c), v), t) = all

\* C6 witness: all three filters active, each of them dropping rows the
\* other two keep, and the result not empty
C6_Witness ==
    /\ GeoFiltered
    /\ geo_widgets.incident_filter # "All"
    /\ geo_widgets.severity_filter # "All"
    /\ df_geo_filtered # <<>>
    /\ \E i \in 1..Len(df_geo) :
        /\ ~TypeOk(df_geo[i], geo_widgets.incident_filter)
        /\ SeverityOk(df_geo[i], geo_widgets.severity_filter)
        /\ RecentOk(df_geo[i], cutoff_date)
    /\ \E i \in 1..Len(df_geo) :
        /\ TypeOk(df_geo[i], geo_widgets.incident_filter)
        /\ ~SeverityOk(df_geo[i], geo_widgets.severity_filter)
        /\ RecentOk(df_geo[i], cutoff_date)
    /\ \E i \in 1..Len(df_geo) :
        /\ TypeOk(df_geo[i], geo_widgets.incident_filter)
        /\ SeverityOk(df_geo[i], geo_widgets.severity_filter)
        /\ ~RecentOk(df_geo[i], cutoff_date)

\* the KPI view has been computed (lines 186-201)
KpisFiltered == pc = "tab1"

\* the index in df_kpis of the row dated ts
RowOfDate(ts) == DeltaDays(StartDate, ts) + 1

\* C7: when the date widget yields a pair (start, end), df_filtered holds
\* exactly the records with start <= date <= end, both bounds included, in
\* source order; on any other value df_filtered is the whole KPI table.
C7_DateFilterInclusive ==
    KpisFiltered =>
        IF Len(date_range) = 2
        THEN LET lo == PdTimestamp(date_range[1])
                 hi == PdTimestamp(date_range[2])
                 inside == {i \in 1..Len(df_kpis) :
                               lo <= df_kpis[i].date /\ df_kpis[i].date <= hi}
             IN  /\ Len(df_filtered) = Cardinality(inside)
                 /\ \A j \in 1..Len(df_filtered) :
                     /\ RowOfDate(df_filtered[j].date) \in inside
                     /\ df_filtered[j] = df_kpis[RowOfDate(df_filtered[j].date)]
                 /\ \A j \in 1..(Len(df_filtered) - 1) :
                     df_filtered[j].date < df_filtered[j + 1].date
        ELSE df_filtered = df_kpis

\* C7 witness: the pair (2024-12-31, 2024-12-31) keeps the one record dated
\* on both bounds
C7_Witness ==
    /\ KpisFiltered
    /\ Len(date_range) = 2
    /\ date_range[1] = date_range[2]
    /\ Len(df_filtered) = 1
    /\ df_filtered[1].date = PdTimestamp(date_range[2])
    /\ df_filtered[1] = df_kpis[Len(df_kpis)]

\* C8: a filter selection that matches no record is not an error: whenever
\* the filtered KPI view or the filtered incident view is empty, the run
\* completes every panel without raising.  (Lines 483 and 490 read the
\* last date and the last leakage rate of df_filtered without the emptiness
\* test line 201 makes.)
C8_EmptyViewCompletes ==
    [][(pc = "tab3" /\ (df_filtered = <<>> \/ df_geo_filtered = <<>>))
          => (pc' = "idle" /\ raised' = FALSE)]_vars

GeoColumns == {"lat", "lon", "city", "type", "severity", "timestamp"}
KpiColumns ==
    {"date", "reservoir_level", "leakage_rate", "pump_uptime",
     "billing_efficiency", "energy_cost", "compliance", "csat"}
AfterLoad == {"date_filter", "tab1", "tab2", "tab3"}

\* C9: over any sequence of reruns, whatever the widgets select, each
\* generator body runs at most once, and df_kpis and df_geo are in every run
\* the tables that one execution returned: no filter or rendering step
\* changes their rows, values or columns (color and size are added to the
\* filtered view only).
C9_GeneratedOnceNeverChanged ==
    [][/\ kpi_runs' <= 1
       /\ geo_runs' <= 1
       /\ CacheHit(cached, "generate_sample_data") =>
            (CacheHit(cached', "generate_sample_data") /\ kpi_cache' = kpi_cache)
       /\ CacheHit(cached, "generate_geo_data") =>
            (CacheHit(cached', "generate_geo_data") /\ geo_cache' = geo_cache)
       /\ (pc = "gen_kpi" /\ pc' = "load_geo") =>
            (kpi_cache' = kpi_data /\ kpi_data # <<>>)
       /\ (pc = "gen_geo" /\ pc' = "date_filter") =>
            (geo_cache' = geo_data /\ geo_data # <<>>)
       /\ pc' \in AfterLoad =>
            /\ df_kpis' = kpi_cache'
            /\ df_geo' = geo_cache'
            /\ \A i \in 1..Len(df_geo') : DOMAIN df_geo'[i] = GeoColumns
            /\ \A i \in 1..Len(df_kpis') : DOMAIN df_kpis'[i] = KpiColumns
      ]_vars

\* C9 witness: a second run has filtered a table that no generator ran for,
\* and the filtered view has the added columns that df_geo lacks
C9_Witness ==
    /\ runs = 2
    /\ pc = "tab3"
    /\ kpi_runs = 1
    /\ geo_runs = 1
    /\ df_kpis = kpi_cache
    /\ df_geo = geo_cache
    /\ df_geo_filtered # <<>>
    /\ DOMAIN df_geo_filtered[1] = GeoColumns \cup {"color", "size"}
    /\ DOMAIN df_geo[1] = GeoColumns

\* does row r pass the recency filter with the given cutoff?
PassesRecency(r, cutoff) == ByRecency(<<r>>, cutoff) # <<>>
\* the rows of the cached incident table that pass it at clock reading t
\* with slider value n
PassingRows(tbl, t, n) == {i \in 1..Len(tbl) : PassesRecency(tbl[i], t - Days(n))}

\* C10: an incident generated at time g with day offset k (0 <= k <= 29)
\* passes the recency filter of a run at time t >= g with slider value N
\* if and only if k days + (t - g) <= N days; and, the table being cached
\* while the clock is read anew in every run, for a fixed N the set of
\* incidents that pass never gains a record as time goes on.
C10_RecencyByAge ==
    [][/\ GeoFiltered' =>
            LET n == geo_widgets'.days_filter
                Young(i) == Days(geo_origin'[i].k) + (now' - geo_origin'[i].g) <= Days(n)
            IN  /\ Len(geo_origin') = Len(df_geo')
                /\ \A i \in 1..Len(df_geo') :
                    /\ geo_origin'[i].k \in 0..29
                    /\ now' >= geo_origin'[i].g
                    /\ PassesRecency(df_geo'[i], cutoff_date') <=> Young(i)
                /\ (geo_widgets'.incident_filter = "All"
                       /\ geo_widgets'.severity_filter = "All") =>
                    Len(df_geo_filtered') = Cardinality({i \in 1..Len(df_geo') : Young(i)})
       /\ (CacheHit(cached, "generate_geo_data") /\ (now' # now \/ geo_cache' # geo_cache)) =>
            \A n \in 1..30 : PassingRows(geo_cache', now', n) \subseteq PassingRows(geo_cache, now, n)
      ]_vars

\* C10 witness: a run whose recency filter drops an incident younger than N
\* days at its generation (k < N) because of the time gone by since, and
\* keeps another incident
C10_Witness ==
    /\ GeoFiltered
    /\ \E i \in 1..Len(df_geo) :
        /\ geo_origin[i].k < geo_widgets.days_filter
        /\ now > geo_origin[i].g
        /\ ~PassesRecency(df_geo[i], cutoff_date)
    /\ \E i \in 1..Len(df_geo) : PassesRecency(df_geo[i], cutoff_date)

\* C11: for every date selection the row on the KPI cards is a record of the
\* source table; when the filtered KPI view is non-empty it is the record of
\* the view with the greatest date, and when the view is empty it is the
\* last record of the full table, dated 2024-12-31.
C11_CardsShowLatestRecord ==
    KpisFiltered =>
        /\ \E i \in 1..Len(df_kpis) : current_metrics = df_kpis[i]
        /\ IF df_filtered # <<>>
           THEN /\ \E j \in 1..Len(df_filtered) : current_metrics = df_filtered[j]
                /\ \A j \in 1..Len(df_filtered) :
                    df_filtered[j].date <= current_metrics.date
           ELSE /\ current_metrics = df_kpis[Len(df_kpis)]
                /\ current_metrics.date = PdTimestamp(ToOrdinal(2024, 12, 31))

\* C11 witness: a selection ending before the end of the table, so that the
\* cards show a record of the view which is not the last record of the table
C11_Witness ==
    /\ KpisFiltered
    /\ Len(date_range) = 2
    /\ df_filtered # <<>>
    /\ current_metrics = df_filtered[Len(df_filtered)]
    /\ current_metrics.date = PdTimestamp(date_range[2])
    /\ current_metrics.date < df_kpis[Len(df_kpis)].date

====
